---------------------------- MODULE Spec2Model ----------------------------
(***************************************************************************)
(* A model of the three command-line utilities of storygraph_to_goodreads: *)
(*   split.py                   split_csv, split_by_status                 *)
(*   compare_csv.py             compare_storygraph_libraries               *)
(*   storygraph_to_goodreads.py convert_csv                                *)
(*                                                                         *)
(* A Python str is a sequence of one-character strings, so that strip(),   *)
(* lower(), replace() and strptime() are computed and not assumed.  A CSV  *)
(* record is a sequence of cells.  Python's None is the value None below,  *)
(* which is no string any cell can hold.                                   *)
(***************************************************************************)
EXTENDS Integers, Sequences, FiniteSets, TLC

VARIABLES
    \* split.py, split_csv
    sp_pc, sp_file, chunk_size, total_rows, num_chunks, chunk_num,
    sp_reader, sp_iter, sp_out,
    \* split.py, split_by_status
    st_pc, st_file, st_reader, output_files, st_fs,
    \* compare_csv.py, compare_storygraph_libraries
    cmp_pc, existing_file, new_file, cmp_reader, existing_books,
    unique_entries, cmp_output,
    \* storygraph_to_goodreads.py, convert_csv
    cv_pc, cv_file, cv_reader, cv_out

sp_vars == <<sp_pc, sp_file, chunk_size, total_rows, num_chunks, chunk_num,
             sp_reader, sp_iter, sp_out>>
st_vars == <<st_pc, st_file, st_reader, output_files, st_fs>>
cmp_vars == <<cmp_pc, existing_file, new_file, cmp_reader, existing_books,
              unique_entries, cmp_output>>

cv_vars == <<cv_pc, cv_file, cv_reader, cv_out>>

\* What each utility leaves alone: the state of the other utilities.
sp_others == <<st_vars, cmp_vars, cv_vars>>
st_others == <<sp_vars, cmp_vars, cv_vars>>
cmp_others == <<sp_vars, st_vars, cv_vars>>
cv_others == <<sp_vars, st_vars, cmp_vars>>

-----------------------------------------------------------------------------
(* Bounds of the model.                                                    *)

\* Longest input of split_csv, in CSV records after the header.
MaxSplitRows == 3
\* Largest --chunk-size tried.
MaxChunkSize == 3
\* Longest input of split_by_status, in CSV records after the header.
MaxStatusRows == 3
\* Longest existing catalog and longest new catalog of the comparison, in
\* CSV records after the header.
MaxExistingRows == 1
MaxNewRows == 2
\* Longest input of the converter, in CSV records after the header.
MaxConvRows == 2

-----------------------------------------------------------------------------
(* Python values.                                                          *)

\* None: a one-element sequence whose element is no single character.
None == <<"None">>

\* str(x) as an f-string formats it: None prints as the text None.
Str(x) == IF x = None THEN <<"N", "o", "n", "e">> ELSE x

\* bool(x) of a str or None: empty strings and None are falsy.
Truthy(x) == x # None /\ x # <<>>

RECURSIVE SumSeq(_)
SumSeq(s) == IF s = <<>> THEN 0 ELSE Head(s) + SumSeq(Tail(s))

RECURSIVE Flatten(_)
Flatten(ss) == IF ss = <<>> THEN <<>> ELSE Head(ss) \o Flatten(Tail(ss))

\* The number of occurrences of character c in string s.
CountChar(s, c) == Cardinality({i \in 1..Len(s) : s[i] = c})

\* The characters str.strip() removes.
IsSpace(c) == c \in {" ", "\t", "\n", "\r"}

RECURSIVE LStrip(_)
LStrip(s) == IF s # <<>> /\ IsSpace(Head(s)) THEN LStrip(Tail(s)) ELSE s

RECURSIVE RStrip(_)
RStrip(s) ==
    IF s # <<>> /\ IsSpace(s[Len(s)]) THEN RStrip(SubSeq(s, 1, Len(s) - 1))
    ELSE s

\* str.strip()
Strip(s) == RStrip(LStrip(s))

UpperCase == <<"A", "B", "C", "D", "E", "F", "G", "H", "I", "J", "K", "L", "M",
               "N", "O", "P", "Q", "R", "S", "T", "U", "V", "W", "X", "Y", "Z">>
LowerCase == <<"a", "b", "c", "d", "e", "f", "g", "h", "i", "j", "k", "l", "m",
               "n", "o", "p", "q", "r", "s", "t", "u", "v", "w", "x", "y", "z">>

LowerChar(c) ==
    IF \E i \in 1..26 : UpperCase[i] = c
    THEN LowerCase[CHOOSE i \in 1..26 : UpperCase[i] = c]
    ELSE c

\* str.lower()
Lower(s) == [i \in 1..Len(s) |-> LowerChar(s[i])]

\* str.replace(old, ''): every occurrence of old, left to right, removed.
RECURSIVE Remove(_, _)
Remove(s, old) ==
    IF Len(s) < Len(old) THEN s
    ELSE IF SubSeq(s, 1, Len(old)) = old
         THEN Remove(SubSeq(s, Len(old) + 1, Len(s)), old)
         ELSE <<Head(s)>> \o Remove(Tail(s), old)

Digits == <<"0", "1", "2", "3", "4", "5", "6", "7", "8", "9">>

\* str.isdigit() of one character, for the ASCII digits.
IsDigit(c) == \E i \in 1..10 : Digits[i] = c

DigitVal(c) == (CHOOSE i \in 1..10 : Digits[i] = c) - 1

AllDigits(s) == \A i \in 1..Len(s) : IsDigit(s[i])

\* The number a string of digits writes.
RECURSIVE ToInt(_)
ToInt(s) ==
    IF s = <<>> THEN 0
    ELSE 10 * ToInt(SubSeq(s, 1, Len(s) - 1)) + DigitVal(s[Len(s)])

Min(a, b) == IF a <= b THEN a ELSE b

\* str(n) of an integer.
RECURSIVE NatToStr(_)
NatToStr(n) ==
    IF n < 10 THEN <<Digits[n + 1]>>
    ELSE NatToStr(n \div 10) \o <<Digits[(n % 10) + 1]>>

IntToStr(n) == IF n < 0 THEN <<"-">> \o NatToStr(-n) ELSE NatToStr(n)

\* s in t, for strings.
Contains(t, s) ==
    \E i \in 1..(Len(t) - Len(s) + 1) : SubSeq(t, i, i + Len(s) - 1) = s

\* str.split(sep) for a one-character separator.
RECURSIVE SplitOn(_, _)
SplitOn(s, sep) ==
    IF \E i \in 1..Len(s) : s[i] = sep
    THEN LET i == CHOOSE i \in 1..Len(s) :
                     s[i] = sep /\ \A j \in 1..(i - 1) : s[j] # sep
         IN  <<SubSeq(s, 1, i - 1)>> \o SplitOn(SubSeq(s, i + 1, Len(s)), sep)
    ELSE <<s>>

\* str.split(): the words between runs of whitespace.
RECURSIVE Split(_)
Split(s) ==
    LET t == LStrip(s)
    IN  IF t = <<>> THEN <<>>
        ELSE LET n == IF \E i \in 1..Len(t) : IsSpace(t[i])
                      THEN (CHOOSE i \in 1..Len(t) :
                               IsSpace(t[i]) /\ \A j \in 1..(i - 1) : ~IsSpace(t[j])) - 1
                      ELSE Len(t)
             IN  <<SubSeq(t, 1, n)>> \o Split(SubSeq(t, n + 1, Len(t)))

\* ' '.join(words)
RECURSIVE Join(_)
Join(words) ==
    IF words = <<>> THEN <<>>
    ELSE IF Len(words) = 1 THEN words[1]
    ELSE words[1] \o <<" ">> \o Join(Tail(words))

\* int(float(s)): [ok |-> FALSE] when float() or int() raises.  The text
\* float() accepts is read as an optional sign and digits with at most one
\* point, in whitespace; of the rest of float()'s grammar, nan and inf make
\* int() raise, and exponents and underscores are not modelled.
IntOfFloat(s) ==
    LET t == Strip(s)
        signed == t # <<>> /\ t[1] \in {"+", "-"}
        body == IF signed THEN Tail(t) ELSE t
        parts == SplitOn(body, ".")
        whole == parts[1]
        frac == IF Len(parts) = 2 THEN parts[2] ELSE <<>>
        ok == /\ Len(parts) <= 2
              /\ AllDigits(whole) /\ AllDigits(frac)
              /\ whole \o frac # <<>>
    IN  IF ~ok THEN [ok |-> FALSE, val |-> 0]
        ELSE [ok |-> TRUE,
              val |-> IF signed /\ t[1] = "-" THEN -ToInt(whole) ELSE ToInt(whole)]

-----------------------------------------------------------------------------
(* datetime.strptime and strftime, for the formats convert_date_format     *)
(* uses.                                                                   *)

MonthNames ==
    << <<"j", "a", "n", "u", "a", "r", "y">>,
       <<"f", "e", "b", "r", "u", "a", "r", "y">>,
       <<"m", "a", "r", "c", "h">>,
       <<"a", "p", "r", "i", "l">>,
       <<"m", "a", "y">>,
       <<"j", "u", "n", "e">>,
       <<"j", "u", "l", "y">>,
       <<"a", "u", "g", "u", "s", "t">>,
       <<"s", "e", "p", "t", "e", "m", "b", "e", "r">>,
       <<"o", "c", "t", "o", "b", "e", "r">>,
       <<"n", "o", "v", "e", "m", "b", "e", "r">>,
       <<"d", "e", "c", "e", "m", "b", "e", "r">> >>

NoDate == [ok |-> FALSE, y |-> 0, m |-> 0, d |-> 0]

\* %Y: four digits.
IsYearText(s) == Len(s) = 4 /\ AllDigits(s)

\* %m: 1[0-2]|0[1-9]|[1-9]
IsMonthText(s) == Len(s) \in 1..2 /\ AllDigits(s) /\ ToInt(s) \in 1..12

\* %d: 3[01]|[12]\d|0[1-9]|[1-9]| [1-9]
IsDayText(s) ==
    \/ Len(s) \in 1..2 /\ AllDigits(s) /\ ToInt(s) \in 1..31
    \/ Len(s) = 2 /\ s[1] = " " /\ IsDigit(s[2]) /\ s[2] # "0"

DayOfText(s) == IF s[1] = " " THEN DigitVal(s[2]) ELSE ToInt(s)

IsLeap(y) == y % 4 = 0 /\ (y % 100 # 0 \/ y % 400 = 0)

DaysInMonth(y, m) ==
    IF m = 2 THEN (IF IsLeap(y) THEN 29 ELSE 28)
    ELSE IF m \in {4, 6, 9, 11} THEN 30 ELSE 31

\* datetime(y, m, d): ValueError for the year 0 and for a day the month
\* lacks.
MakeDate(ytext, mtext, dtext) ==
    IF ~(IsYearText(ytext) /\ IsMonthText(mtext) /\ IsDayText(dtext)) THEN NoDate
    ELSE LET y == ToInt(ytext)
             m == ToInt(mtext)
             d == DayOfText(dtext)
         IN  IF y >= 1 /\ d <= DaysInMonth(y, m)
             THEN [ok |-> TRUE, y |-> y, m |-> m, d |-> d]
             ELSE NoDate

\* The three numeric formats: the text must be three fields between two
\* separators.
ParseYMD(s, sep) ==
    LET parts == SplitOn(s, sep)
    IN  IF Len(parts) # 3 THEN NoDate ELSE MakeDate(parts[1], parts[2], parts[3])

ParseDMY(s, sep) ==
    LET parts == SplitOn(s, sep)
    IN  IF Len(parts) # 3 THEN NoDate ELSE MakeDate(parts[3], parts[2], parts[1])

\* "%B %d, %Y": a month name in any case, whitespace, the day, a comma,
\* whitespace, the year.
ParseBdY(s) ==
    LET low == Lower(s)
        named == {k \in 1..12 : /\ Len(low) >= Len(MonthNames[k])
                                /\ SubSeq(low, 1, Len(MonthNames[k])) = MonthNames[k]}
    IN  IF named = {} THEN NoDate
        ELSE LET k == CHOOSE k \in named : TRUE
                 rest == SubSeq(s, Len(MonthNames[k]) + 1, Len(s))
                 parts == SplitOn(LStrip(rest), ",")
             IN  IF rest = <<>> \/ ~IsSpace(rest[1]) \/ Len(parts) # 2
                    \/ parts[2] = <<>> \/ ~IsSpace(parts[2][1])
                 THEN NoDate
                 ELSE MakeDate(LStrip(parts[2]), IntToStr(k), parts[1])

Pad2(n) == IF n < 10 THEN <<"0">> \o NatToStr(n) ELSE NatToStr(n)

\* dt.strftime("%Y/%m/%d"): the C library's %Y, which on Linux does not
\* pad a year below 1000.
FormatDate(dt) ==
    NatToStr(dt.y) \o <<"/">> \o Pad2(dt.m) \o <<"/">> \o Pad2(dt.d)


-----------------------------------------------------------------------------
(* csv.DictReader: a record of fewer cells than the header gets None for   *)
(* the missing columns (restval), one of more cells keeps the rest under   *)
(* the key None (restkey).                                                 *)

DictReaderRow(fieldnames, cells) ==
    [vals |-> [i \in 1..Len(fieldnames) |->
                  IF i <= Len(cells) THEN cells[i] ELSE None],
     rest |-> Len(cells) > Len(fieldnames)]

\* The index of a column in the header, 0 when the header lacks it.
ColIndex(fieldnames, name) ==
    IF \E i \in 1..Len(fieldnames) : fieldnames[i] = name
    THEN CHOOSE i \in 1..Len(fieldnames) :
             /\ fieldnames[i] = name
             /\ \A j \in 1..Len(fieldnames) : fieldnames[j] = name => j <= i
    ELSE 0

\* row.get(name, default): with repeated column names the last one wins.
RowGet(fieldnames, row, name, default) ==
    IF ColIndex(fieldnames, name) = 0 THEN default
    ELSE row.vals[ColIndex(fieldnames, name)]

\* csv.DictWriter.writerow on a dict read with the same fieldnames: a None
\* value is written as an empty cell.
DictWriterCells(row) ==
    [i \in 1..Len(row.vals) |-> IF row.vals[i] = None THEN <<>> ELSE row.vals[i]]

-----------------------------------------------------------------------------
(* split.py: split_csv                                                     *)

\* The records tried: a plain one, one whose quoted cell holds a line
\* break, and a blank line (csv.reader yields the empty record for it).
SplitRecords ==
    { << <<"a">> >>, << <<"b", "\n", "c">> >>, <<>> }

SplitHeaders == { << <<"T">> >> }

\* The physical lines a record takes in the file.
PhysicalLines(record) ==
    1 + SumSeq([i \in 1..Len(record) |-> CountChar(record[i], "\n")])

\* sum(1 for _ in infile), the file being the header and the data records.
LineCount(file) == SumSeq([i \in 1..Len(file) |-> PhysicalLines(file[i])])

\* math.ceil(a / b) for a >= 0, b >= 1.
Ceil(a, b) == (a + b - 1) \div b

SplitFiles ==
    UNION { [1..n -> SplitRecords] : n \in 0..MaxSplitRows }

SplitInit ==
    /\ sp_pc = "start"
    /\ \E hdr \in SplitHeaders, body \in SplitFiles :
           sp_file \in { <<>>, <<hdr>> \o body }
    /\ chunk_size \in 1..MaxChunkSize
    /\ total_rows = 0
    /\ num_chunks = 0
    /\ chunk_num = 0
    /\ sp_reader = 0
    /\ sp_iter = 0
    /\ sp_out = <<>>

SplitIdle ==
    /\ sp_pc = "idle"
    /\ sp_file = <<>>
    /\ chunk_size = 1
    /\ total_rows = 0
    /\ num_chunks = 0
    /\ chunk_num = 0
    /\ sp_reader = 0
    /\ sp_iter = 0
    /\ sp_out = <<>>

\* Lines 34 and 42: total_rows and num_chunks.  (NumChunks_Floor: the
\* division rounded down.)
NumChunks_Floor(file, n) == (LineCount(file) - 1) \div n

NumChunks(file, n) == Ceil(LineCount(file) - 1, n)

\* Lines 27-42: header = next(reader) raises StopIteration on an empty
\* file, which the handler of line 73 catches; otherwise the lines are
\* counted and the number of chunks fixed.
SplitStart ==
    /\ sp_pc = "start"
    /\ IF sp_file = <<>>
       THEN /\ sp_pc' = "failed"
            /\ UNCHANGED <<total_rows, num_chunks, chunk_num, sp_reader>>
       ELSE /\ total_rows' = LineCount(sp_file) - 1
            /\ num_chunks' = NumChunks(sp_file, chunk_size)
            /\ chunk_num' = 1
            /\ sp_reader' = 1
            /\ sp_pc' = "chunk"
    /\ UNCHANGED <<sp_file, chunk_size, sp_iter, sp_out>>
    /\ UNCHANGED sp_others

\* Lines 47-54: the next chunk file is created with the header.
SplitOpenChunk ==
    /\ sp_pc = "chunk"
    /\ chunk_num <= num_chunks
    /\ sp_out' = Append(sp_out, [header |-> sp_file[1], rows |-> <<>>])
    /\ sp_iter' = 0
    /\ sp_pc' = "rows"
    /\ UNCHANGED <<sp_file, chunk_size, total_rows, num_chunks, chunk_num,
                   sp_reader>>
    /\ UNCHANGED sp_others

\* Lines 58-62: one more record goes to the open chunk.
ChunkHasRoom(iter, n) == iter < n

SplitWriteRow ==
    /\ sp_pc = "rows"
    /\ ChunkHasRoom(sp_iter, chunk_size)
    /\ sp_reader < Len(sp_file)
    /\ sp_out' = [sp_out EXCEPT ![chunk_num].rows =
                      Append(@, sp_file[sp_reader + 1])]
    /\ sp_reader' = sp_reader + 1
    /\ sp_iter' = sp_iter + 1
    /\ UNCHANGED <<sp_pc, sp_file, chunk_size, total_rows, num_chunks,
                   chunk_num>>
    /\ UNCHANGED sp_others

\* Lines 58, 63-64: the chunk is full, or the reader is exhausted.
SplitCloseChunk ==
    /\ sp_pc = "rows"
    /\ \/ ~ChunkHasRoom(sp_iter, chunk_size)
       \/ sp_reader >= Len(sp_file)
    /\ chunk_num' = chunk_num + 1
    /\ sp_pc' = "chunk"
    /\ UNCHANGED <<sp_file, chunk_size, total_rows, num_chunks, sp_reader,
                   sp_iter, sp_out>>
    /\ UNCHANGED sp_others

\* Line 47: the range of chunk numbers is exhausted.
SplitDone ==
    /\ sp_pc = "chunk"
    /\ chunk_num > num_chunks
    /\ sp_pc' = "done"
    /\ UNCHANGED <<sp_file, chunk_size, total_rows, num_chunks, chunk_num,
                   sp_reader, sp_iter, sp_out>>
    /\ UNCHANGED sp_others

SplitNext ==
    \/ SplitStart
    \/ SplitOpenChunk
    \/ SplitWriteRow
    \/ SplitCloseChunk
    \/ SplitDone

\* The data records of the input, header excluded.
SplitDataRows == IF sp_file = <<>> THEN <<>> ELSE Tail(sp_file)

-----------------------------------------------------------------------------
(* split.py: split_by_status                                               *)

ExclusiveShelf == "Exclusive Shelf"

S_unknown == <<"u", "n", "k", "n", "o", "w", "n">>
S_read == <<"r", "e", "a", "d">>
S_to_read == <<"t", "o", "-", "r", "e", "a", "d">>

\* The headers tried: with and without the status column.
StatusHeaders == { <<"Title", ExclusiveShelf>>, <<"Title">> }

\* The records tried under a header: every status cell of StatusCells, a
\* record one cell short and a record one cell long.
StatusCells == { S_read, S_to_read, <<>>, <<"N", "o", "n", "e">> }

StatusRecords(fieldnames) ==
    LET full == IF Len(fieldnames) = 1 THEN { << <<"t">> >> }
                ELSE { << <<"t">>, c >> : c \in StatusCells }
    IN  full \cup { << <<"t">> >>, << <<"t">>, S_read, <<"x">> >> }

\* Line 108: row.get('Exclusive Shelf', 'unknown').
StatusOf(fieldnames, row) == RowGet(fieldnames, row, ExclusiveShelf, S_unknown)

\* Line 115: the file name f"{output_prefix}_{status}.csv", the prefix and
\* the extension left out.
StatusFileName(status) == Str(status)

\* The index in output_files of the handle kept for a status, 0 if none.
HandleOf(files, status) ==
    IF \E i \in 1..Len(files) : files[i].status = status
    THEN CHOOSE i \in 1..Len(files) : files[i].status = status
    ELSE 0

\* A buffered file object flushed: its buffer goes to the start of the file
\* it was opened on, over what another handle of the same path left there.
Flush(content, buf) ==
    IF Len(buf) >= Len(content) THEN buf
    ELSE buf \o SubSeq(content, Len(buf) + 1, Len(content))

RECURSIVE CloseAll(_, _)
CloseAll(files, fs) ==
    IF files = <<>> THEN fs
    ELSE CloseAll(Tail(files),
                  [fs EXCEPT ![Head(files).path] = Flush(@, Head(files).buf)])

StatusInit ==
    /\ st_pc = "rows"
    /\ \E hdr \in StatusHeaders :
         \E n \in 0..MaxStatusRows :
           st_file \in { [header |-> hdr, rows |-> rs] :
                            rs \in [1..n -> StatusRecords(hdr)] }
    /\ st_reader = 0
    /\ output_files = <<>>
    /\ st_fs = <<>>

StatusIdle ==
    /\ st_pc = "idle"
    /\ st_file = [header |-> <<>>, rows |-> <<>>]
    /\ st_reader = 0
    /\ output_files = <<>>
    /\ st_fs = <<>>

\* Lines 107-123, one pass of the loop: the handle of the row's status is
\* opened on first use (which truncates the file of that name and buffers
\* the header), and the row is written to it.  A row holding the key None
\* makes DictWriter raise ValueError, which line 135 catches.
StatusRow ==
    /\ st_pc = "rows"
    /\ st_reader < Len(st_file.rows)
    /\ LET n == st_reader + 1
           row == DictReaderRow(st_file.header, st_file.rows[n])
           status == StatusOf(st_file.header, row)
           path == StatusFileName(status)
           fresh == HandleOf(output_files, status) = 0
           opened == IF fresh
                     THEN Append(output_files,
                                 [status |-> status, path |-> path,
                                  buf |-> << [n |-> 0, cells |-> <<>>] >>])
                     ELSE output_files
           h == HandleOf(opened, status)
       IN  /\ st_fs' = IF fresh THEN (path :> <<>>) @@ st_fs ELSE st_fs
           /\ IF row.rest
              THEN /\ output_files' = opened
                   /\ st_pc' = "failed"
              ELSE /\ output_files' =
                        [opened EXCEPT ![h].buf =
                            Append(@, [n |-> n, cells |-> DictWriterCells(row)])]
                   /\ st_pc' = "rows"
           /\ st_reader' = n
    /\ UNCHANGED st_file
    /\ UNCHANGED st_others

\* Lines 125-127: the input is exhausted and every handle is closed, in the
\* order the handles were opened.
StatusClose ==
    /\ st_pc = "rows"
    /\ st_reader = Len(st_file.rows)
    /\ st_fs' = CloseAll(output_files, st_fs)
    /\ st_pc' = "done"
    /\ UNCHANGED <<st_file, st_reader, output_files>>
    /\ UNCHANGED st_others

StatusNext ==
    \/ StatusRow
    \/ StatusClose

-----------------------------------------------------------------------------
(* compare_csv.py: find_column_name, compare_storygraph_libraries          *)

\* The None that find_column_name returns: column names are plain strings
\* here, and this is one no header holds.
NoColumn == "<None>"

\* Lines 127-135: the first candidate name the header holds, None if none.
RECURSIVE find_column_name(_, _)
find_column_name(headers, possible_names) ==
    IF possible_names = <<>> THEN NoColumn
    ELSE IF \E i \in 1..Len(headers) : headers[i] = Head(possible_names)
         THEN Head(possible_names)
         ELSE find_column_name(headers, Tail(possible_names))

TitleNames == <<"Title", "title">>
AuthorNames == <<"Authors", "Author", "authors", "author">>
IsbnNames == <<"ISBN/UID", "ISBN", "isbn", "ISBN13", "isbn13">>

title_col(headers) == find_column_name(headers, TitleNames)
author_col(headers) == find_column_name(headers, AuthorNames)
isbn_col(headers) == find_column_name(headers, IsbnNames)

\* Lines 73 and 102-103: strip, then drop hyphens, then =" and then ".
NormalizeIsbn(x) == Remove(Remove(Remove(Strip(x), <<"-">>), <<"=", "\"">>), <<"\"">>)

\* The key f"{title}|{author}".
TitleAuthorKey(title, author) == title \o <<"|">> \o author

\* Lines 57-75: the title, author and ISBN of a row of the existing
\* catalog.  The title is stripped without a test for None; author and
\* ISBN are tested.
ExistingRaises(headers, row) == RowGet(headers, row, title_col(headers), <<>>) = None

ExistingTitle(headers, row) ==
    Lower(Strip(RowGet(headers, row, title_col(headers), <<>>)))

ExistingAuthor(headers, row) ==
    IF author_col(headers) = NoColumn THEN <<>>
    ELSE LET author == RowGet(headers, row, author_col(headers), <<>>)
         IN  IF author # None THEN Lower(Strip(author)) ELSE <<>>

ExistingIsbn(headers, row) ==
    IF isbn_col(headers) = NoColumn THEN <<>>
    ELSE LET isbn == RowGet(headers, row, isbn_col(headers), <<>>)
         IN  IF isbn # None THEN NormalizeIsbn(isbn) ELSE <<>>

\* Lines 78-85: the keys a row of the existing catalog adds to the set.
ExistingKeys(headers, row) ==
    LET title == ExistingTitle(headers, row)
        author == ExistingAuthor(headers, row)
        isbn == ExistingIsbn(headers, row)
    IN  (IF isbn # <<>> THEN {isbn} ELSE {})
          \cup (IF author # <<>> THEN {TitleAuthorKey(title, author)}
                ELSE {title})

\* Lines 94-103: the same of a row of the new catalog, where none of the
\* three is tested for None before .strip().
NewRaises(headers, row) ==
    \/ RowGet(headers, row, title_col(headers), <<>>) = None
    \/ author_col(headers) # NoColumn
         /\ RowGet(headers, row, author_col(headers), <<>>) = None
    \/ isbn_col(headers) # NoColumn
         /\ RowGet(headers, row, isbn_col(headers), <<>>) = None

NewTitle(headers, row) ==
    Lower(Strip(RowGet(headers, row, title_col(headers), <<>>)))

NewAuthor(headers, row) ==
    IF author_col(headers) = NoColumn THEN <<>>
    ELSE Lower(Strip(RowGet(headers, row, author_col(headers), <<>>)))

NewIsbn(headers, row) ==
    IF isbn_col(headers) = NoColumn THEN <<>>
    ELSE NormalizeIsbn(RowGet(headers, row, isbn_col(headers), <<>>))

\* Lines 105-112: is_unique.  (is_unique_IsbnOnly: the two title tests
\* forgotten.)
is_unique_IsbnOnly(title, author, isbn, books) ==
    ~ (isbn # <<>> /\ isbn \in books)

is_unique(title, author, isbn, books) ==
    IF isbn # <<>> /\ isbn \in books THEN FALSE
    ELSE IF author # <<>> /\ TitleAuthorKey(title, author) \in books THEN FALSE
    ELSE IF title \in books THEN FALSE
    ELSE TRUE

\* The catalogs tried.  A book is a title, an author and an ISBN cell; the
\* cells of its record follow the columns of the header.
CmpBooks ==
    { << <<"a">>, <<"b">>, <<"1">> >>,
      << <<" ", "A">>, <<"B", " ">>, <<"=", "\"", "1", "-", "\"">> >>,
      << <<"1">>, <<>>, <<>> >>,
      << <<"a", "|", "b">>, <<>>, <<"2">> >>,
      << <<"c">>, <<"d">>, <<"3">> >> }

CmpCell(name, book) ==
    IF \E i \in 1..Len(TitleNames) : TitleNames[i] = name THEN book[1]
    ELSE IF \E i \in 1..Len(AuthorNames) : AuthorNames[i] = name THEN book[2]
    ELSE IF \E i \in 1..Len(IsbnNames) : IsbnNames[i] = name THEN book[3]
    ELSE <<"x">>

\* The records of a catalog: each book in full, the first book cut short
\* by one cell and to one cell, and the last with a cell too many.
CmpRecords(headers) ==
    LET full(book) == [i \in 1..Len(headers) |-> CmpCell(headers[i], book)]
        first == full(<< <<"a">>, <<"b">>, <<"1">> >>)
        last == full(<< <<"c">>, <<"d">>, <<"3">> >>)
    IN  ({ full(book) : book \in CmpBooks }
           \cup { SubSeq(first, 1, Len(headers) - 1), SubSeq(first, 1, 1),
                  Append(last, <<"x">>) }) \ { <<>> }

\* The pairs of headers tried, the existing catalog's first.
CmpHeaderPairs ==
    { << <<"Title", "Authors", "ISBN/UID">>, <<"Title", "Authors", "ISBN/UID">> >>,
      << <<"ISBN", "Author", "Title">>, <<"Title", "Authors", "ISBN/UID">> >>,
      << <<"title">>, <<"Title", "Author", "ISBN13">> >>,
      << <<"Name", "Authors">>, <<"Title", "Authors", "ISBN/UID">> >> }

CmpFiles(headers, max) ==
    { [header |-> headers, rows |-> rs] :
        rs \in UNION { [1..n -> CmpRecords(headers)] : n \in 0..max } }

CmpInit ==
    /\ cmp_pc = "start"
    /\ \E hp \in CmpHeaderPairs :
         /\ existing_file \in CmpFiles(hp[1], MaxExistingRows)
         /\ new_file \in CmpFiles(hp[2], MaxNewRows)
    /\ cmp_reader = 0
    /\ existing_books = {}
    /\ unique_entries = <<>>
    /\ cmp_output = None

CmpIdle ==
    /\ cmp_pc = "idle"
    /\ existing_file = [header |-> <<>>, rows |-> <<>>]
    /\ new_file = [header |-> <<>>, rows |-> <<>>]
    /\ cmp_reader = 0
    /\ existing_books = {}
    /\ unique_entries = <<>>
    /\ cmp_output = None

\* Lines 26-49: the columns are looked up; without a title column in both
\* files the function returns and writes nothing.
CmpResolve ==
    /\ cmp_pc = "start"
    /\ cmp_pc' = IF title_col(existing_file.header) = NoColumn
                    \/ title_col(new_file.header) = NoColumn
                 THEN "failed" ELSE "existing"
    /\ UNCHANGED <<existing_file, new_file, cmp_reader, existing_books,
                   unique_entries, cmp_output>>
    /\ UNCHANGED cmp_others

\* Lines 55-85, one row of the existing catalog.
CmpExistingRow ==
    /\ cmp_pc = "existing"
    /\ cmp_reader < Len(existing_file.rows)
    /\ LET headers == existing_file.header
           row == DictReaderRow(headers, existing_file.rows[cmp_reader + 1])
       IN  IF ExistingRaises(headers, row)
           THEN /\ cmp_pc' = "raised"
                /\ UNCHANGED existing_books
           ELSE /\ existing_books' = existing_books \cup ExistingKeys(headers, row)
                /\ UNCHANGED cmp_pc
    /\ cmp_reader' = cmp_reader + 1
    /\ UNCHANGED <<existing_file, new_file, unique_entries, cmp_output>>
    /\ UNCHANGED cmp_others

\* Lines 87-91: the existing catalog is exhausted, the new one is opened.
CmpOpenNew ==
    /\ cmp_pc = "existing"
    /\ cmp_reader = Len(existing_file.rows)
    /\ cmp_pc' = "new"
    /\ cmp_reader' = 0
    /\ UNCHANGED <<existing_file, new_file, existing_books, unique_entries,
                   cmp_output>>
    /\ UNCHANGED cmp_others

\* Lines 93-115, one row of the new catalog.  An entry keeps the number of
\* its row and the dict read.
CmpNewRow ==
    /\ cmp_pc = "new"
    /\ cmp_reader < Len(new_file.rows)
    /\ LET headers == new_file.header
           n == cmp_reader + 1
           row == DictReaderRow(headers, new_file.rows[n])
       IN  IF NewRaises(headers, row)
           THEN /\ cmp_pc' = "raised"
                /\ UNCHANGED unique_entries
           ELSE /\ unique_entries' =
                     IF is_unique(NewTitle(headers, row), NewAuthor(headers, row),
                                  NewIsbn(headers, row), existing_books)
                     THEN Append(unique_entries, [n |-> n, row |-> row])
                     ELSE unique_entries
                /\ UNCHANGED cmp_pc
    /\ cmp_reader' = cmp_reader + 1
    /\ UNCHANGED <<existing_file, new_file, existing_books, cmp_output>>
    /\ UNCHANGED cmp_others

\* Lines 118-121: the output is written: the new file's header, then the
\* unique entries in order.  An entry holding the key None makes
\* DictWriter raise ValueError; the entries before it are written.
RECURSIVE WrittenPrefix(_)
WrittenPrefix(entries) ==
    IF entries = <<>> \/ Head(entries).row.rest THEN <<>>
    ELSE <<[n |-> Head(entries).n, cells |-> DictWriterCells(Head(entries).row)]>>
           \o WrittenPrefix(Tail(entries))

CmpWrite ==
    /\ cmp_pc = "new"
    /\ cmp_reader = Len(new_file.rows)
    /\ cmp_output' = [header |-> new_file.header,
                      rows |-> WrittenPrefix(unique_entries)]
    /\ cmp_pc' = IF \E i \in 1..Len(unique_entries) : unique_entries[i].row.rest
                 THEN "raised" ELSE "done"
    /\ UNCHANGED <<existing_file, new_file, cmp_reader, existing_books,
                   unique_entries>>
    /\ UNCHANGED cmp_others

CmpNext ==
    \/ CmpResolve
    \/ CmpExistingRow
    \/ CmpOpenNew
    \/ CmpNewRow
    \/ CmpWrite

-----------------------------------------------------------------------------
(* storygraph_to_goodreads.py                                              *)

S_currently_reading ==
    <<"c", "u", "r", "r", "e", "n", "t", "l", "y", "-",
      "r", "e", "a", "d", "i", "n", "g">>
S_abandoned == <<"a", "b", "a", "n", "d", "o", "n", "e", "d">>
S_zero == <<"0">>
S_one == <<"1">>

\* Lines 7-32: convert_date_format.
convert_date_format(date_str) ==
    IF ~Truthy(date_str) \/ Strip(date_str) = <<>> THEN <<>>
    ELSE IF ParseYMD(date_str, "-").ok THEN FormatDate(ParseYMD(date_str, "-"))
    ELSE IF ParseDMY(date_str, "/").ok THEN FormatDate(ParseDMY(date_str, "/"))
    ELSE IF ParseBdY(date_str).ok THEN FormatDate(ParseBdY(date_str))
    ELSE IF ParseYMD(date_str, "/").ok THEN date_str
    ELSE <<>>

\* Lines 41-49: status_map.
status_map ==
    { << S_read, S_read >>,
      << S_currently_reading, S_currently_reading >>,
      << <<"c", "u", "r", "r", "e", "n", "t", "l", "y", " ",
           "r", "e", "a", "d", "i", "n", "g">>, S_currently_reading >>,
      << S_to_read, S_to_read >>,
      << <<"t", "o", " ", "r", "e", "a", "d">>, S_to_read >>,
      << <<"t", "o", "-", "r", "e", "a", "d", " ", "p", "i", "l", "e">>, S_to_read >>,
      << <<"d", "n", "f">>, S_abandoned >> }

\* status_map.get(status, "to-read")
StatusMapGet(status) ==
    IF \E e \in status_map : e[1] = status
    THEN (CHOOSE e \in status_map : e[1] = status)[2]
    ELSE S_to_read

\* Lines 35-50: map_reading_status.  (map_reading_status_CaseSensitive:
\* the text looked up without .lower().)
map_reading_status_CaseSensitive(status) ==
    IF ~Truthy(status) THEN S_to_read ELSE StatusMapGet(Strip(status))

map_reading_status(status) ==
    IF ~Truthy(status) THEN S_to_read ELSE StatusMapGet(Strip(Lower(status)))

\* Lines 53-66: convert_rating.
convert_rating(rating) ==
    IF ~Truthy(rating) \/ Strip(rating) = <<>> THEN S_zero
    ELSE LET text == IF Contains(Lower(rating), <<"s", "t", "a", "r">>)
                     THEN Split(rating)[1] ELSE rating
         IN  IF IntOfFloat(text).ok THEN IntToStr(IntOfFloat(text).val)
             ELSE S_zero

\* Lines 78-90: field_mapping.
field_mapping ==
    { <<"Title", "Title">>, <<"Authors", "Author">>, <<"ISBN/UID", "ISBN13">>,
      <<"Format", "Binding">>, <<"Read Status", "Exclusive Shelf">>,
      <<"Date Added", "Date Added">>, <<"Last Date Read", "Date Read">>,
      <<"Read Count", "Read Count">>, <<"Star Rating", "My Rating">>,
      <<"Review", "My Review">>, <<"Tags", "Bookshelves">> }

\* field_mapping.get(sg_field), NoColumn for None.
FieldMappingGet(sg_field) ==
    IF \E e \in field_mapping : e[1] = sg_field
    THEN (CHOOSE e \in field_mapping : e[1] = sg_field)[2]
    ELSE NoColumn

\* Lines 124-131: goodreads_fieldnames.
goodreads_fieldnames ==
    << "Book Id", "Title", "Author", "Author l-f", "Additional Authors",
       "ISBN", "ISBN13", "My Rating", "Average Rating", "Publisher",
       "Binding", "Number of Pages", "Year Published",
       "Original Publication Year", "Date Read", "Date Added", "Bookshelves",
       "Bookshelves with positions", "Exclusive Shelf", "My Review", "Spoiler",
       "Private Notes", "Read Count", "Owned Copies" >>

GoodreadsFields == {goodreads_fieldnames[i] : i \in 1..Len(goodreads_fieldnames)}

\* The ISBN cells: ="""" by default, =""="" for the one left blank.
EmptyIsbn == <<"=", "\"", "\"", "\"", "\"">>
BlankIsbn == <<"=", "\"", "\"", "=", "\"", "\"">>
QuotedIsbn(isbn) == <<"=", "\"", "\"">> \o isbn \o <<"\"", "\"">>

\* Lines 93-116: default_values.  A key the dict does not hold yet (Title,
\* Author) has the value None here; DictWriter writes either as an empty
\* cell.
default_values ==
    [f \in GoodreadsFields |->
        CASE f \in {"Title", "Author"} -> None
          [] f \in {"ISBN", "ISBN13"} -> EmptyIsbn
          [] f \in {"My Rating", "Read Count", "Owned Copies"} -> S_zero
          [] f = "Exclusive Shelf" -> S_to_read
          [] OTHER -> <<>>]

DefaultDateAdded == <<"2", "0", "2", "5", "/", "0", "1", "/", "0", "1">>

\* Lines 156-164: the status and the three fields set from it.
MappedStatus(fieldnames, row) ==
    map_reading_status(Strip(RowGet(fieldnames, row, "Read Status", <<>>)))

StatusFields(gr, mapped_status) ==
    [gr EXCEPT !["Exclusive Shelf"] = mapped_status,
               !["Bookshelves"] = mapped_status,
               !["Bookshelves with positions"] =
                   mapped_status \o <<" ", "(", "#", "1", ")">>]

\* Lines 174-178: Date Read is set from the converted date of a row whose
\* status is read.  (DateReadField_Verbatim: the special case lost, the
\* cell copied as line 192 copies any other.)
DateReadField_Verbatim(before, mapped_status, sg_value) == sg_value

DateReadField(before, mapped_status, sg_value) ==
    LET date_read == convert_date_format(sg_value)
    IN  IF mapped_status = S_read /\ date_read # <<>> THEN date_read ELSE before

\* Lines 213-215.
ClearDateRead(gr, mapped_status) ==
    IF mapped_status # S_read THEN [gr EXCEPT !["Date Read"] = <<>>] ELSE gr

\* Lines 183-190: the digits of the ISBN/UID cell and the two ISBN fields.
DigitsOf(s) == SelectSeq(s, IsDigit)

\* (IsbnFields_NoBlank: the digits routed, the other field left at its
\* default instead of blanked.)
IsbnFields_NoBlank(gr, sg_value) ==
    LET isbn == DigitsOf(sg_value)
    IN  IF Len(isbn) = 10 THEN [gr EXCEPT !["ISBN"] = QuotedIsbn(isbn)]
        ELSE IF Len(isbn) = 13 THEN [gr EXCEPT !["ISBN13"] = QuotedIsbn(isbn)]
        ELSE gr

IsbnFields(gr, sg_value) ==
    LET isbn == DigitsOf(sg_value)
    IN  IF Len(isbn) = 10
        THEN [gr EXCEPT !["ISBN"] = QuotedIsbn(isbn), !["ISBN13"] = BlankIsbn]
        ELSE IF Len(isbn) = 13
        THEN [gr EXCEPT !["ISBN13"] = QuotedIsbn(isbn), !["ISBN"] = BlankIsbn]
        ELSE gr

\* Lines 168-192, one pass of the loop over row.items().
MapField(gr, mapped_status, sg_field, sg_value) ==
    LET gr_field == FieldMappingGet(sg_field)
    IN  IF gr_field = NoColumn \/ gr_field \notin GoodreadsFields
           \/ gr_field = "Exclusive Shelf"
        THEN gr
        ELSE IF gr_field = "Date Added"
        THEN [gr EXCEPT !["Date Added"] =
                 IF convert_date_format(sg_value) # <<>>
                 THEN convert_date_format(sg_value) ELSE DefaultDateAdded]
        ELSE IF gr_field = "Date Read"
        THEN [gr EXCEPT !["Date Read"] = DateReadField(@, mapped_status, sg_value)]
        ELSE IF gr_field = "My Rating"
        THEN [gr EXCEPT !["My Rating"] = convert_rating(sg_value)]
        ELSE IF gr_field = "ISBN13"
        THEN IsbnFields(gr, sg_value)
        ELSE [gr EXCEPT ![gr_field] = sg_value]

\* Lines 167-192: the loop, over the columns from k on.
RECURSIVE MapFields(_, _, _, _, _)
MapFields(gr, mapped_status, fieldnames, row, k) ==
    IF k > Len(fieldnames) THEN gr
    ELSE MapFields(MapField(gr, mapped_status, fieldnames[k], row.vals[k]),
                   mapped_status, fieldnames, row, k + 1)

\* Lines 195-200: Author l-f.
AuthorLF(gr) ==
    IF ~Truthy(gr["Author"]) THEN gr
    ELSE LET author_parts == Split(gr["Author"])
             n == Len(author_parts)
         IN  IF n > 1
             THEN [gr EXCEPT !["Author l-f"] =
                      author_parts[n] \o <<",", " ">>
                        \o Join(SubSeq(author_parts, 1, n - 1))]
             ELSE gr

\* Lines 203-207: Read Count.
Max(a, b) == IF a >= b THEN a ELSE b

ReadCount(gr, fieldnames, row) ==
    LET cell == RowGet(fieldnames, row, "Read Count", None)
    IN  IF Truthy(cell) /\ Strip(cell) # <<>>
        THEN [gr EXCEPT !["Read Count"] =
                 IF IntOfFloat(cell).ok
                 THEN IntToStr(Max(0, IntOfFloat(cell).val)) ELSE S_zero]
        ELSE gr

\* Lines 210-211: Owned Copies.
OwnedCopies(gr, fieldnames, row) ==
    IF ColIndex(fieldnames, "Owned?") = 0 THEN gr
    ELSE [gr EXCEPT !["Owned Copies"] =
             IF Lower(RowGet(fieldnames, row, "Owned?", None))
                  \in { <<"y", "e", "s">>, <<"t", "r", "u", "e">>, <<"y">>, <<"1">> }
             THEN S_one ELSE S_zero]

\* What raises in lines 152-217: .strip() of a Read Status that is None,
\* the iteration over an ISBN/UID that is None, .lower() of an Owned? that
\* is None.  Nothing in convert_csv catches it.
ConvertRaises(fieldnames, row) ==
    \/ RowGet(fieldnames, row, "Read Status", <<>>) = None
    \/ RowGet(fieldnames, row, "ISBN/UID", <<>>) = None
    \/ RowGet(fieldnames, row, "Owned?", <<>>) = None

\* Lines 153-215: the Goodreads row of a StoryGraph row.
goodreads_row(fieldnames, row) ==
    LET mapped_status == MappedStatus(fieldnames, row)
        r1 == StatusFields(default_values, mapped_status)
        r2 == MapFields(r1, mapped_status, fieldnames, row, 1)
        r3 == AuthorLF(r2)
        r4 == ReadCount(r3, fieldnames, row)
        r5 == OwnedCopies(r4, fieldnames, row)
    IN  ClearDateRead(r5, mapped_status)

\* Line 217: goodreads_writer.writerow: a None is written as an empty cell.
WrittenRow(gr) == [f \in GoodreadsFields |-> IF gr[f] = None THEN <<>> ELSE gr[f]]


\* The rows tried.  A book gives a cell to every StoryGraph column; the
\* cells of its record follow the columns of the header.
D_iso == <<"2", "0", "2", "4", "-", "0", "3", "-", "1", "5">>
D_dmy == <<"1", "5", "/", "0", "3", "/", "2", "0", "2", "4">>
D_verbose == <<"M", "a", "r", "c", "h", " ", "5", ",", " ", "2", "0", "2", "4">>
D_slash == <<"2", "0", "2", "4", "/", "3", "/", "5">>
D_feb30 == <<"2", "0", "2", "4", "-", "0", "2", "-", "3", "0">>
D_bad == <<"n", "/", "a">>

St_READ == <<" ", "R", "e", "a", "d", " ">>
St_DNF == <<"D", "N", "F">>
St_Currently == <<"C", "u", "r", "r", "e", "n", "t", "l", "y", " ",
                  "R", "e", "a", "d", "i", "n", "g">>
St_foobar == <<"f", "o", "o", "b", "a", "r">>

BaseBook ==
    [title |-> <<"T">>, authors |-> <<"A", " ", "B">>, isbn |-> <<>>,
     status |-> S_read, added |-> <<>>, last_read |-> D_iso,
     count |-> <<"2">>, rating |-> <<"3", ".", "7">>, tags |-> <<"f", "a", "v">>,
     owned |-> <<"Y", "e", "s">>]

CvStatusCells ==
    { S_read, St_READ, St_DNF, St_Currently, S_currently_reading, S_to_read,
      <<"t", "o", " ", "r", "e", "a", "d">>,
      <<"T", "o", "-", "R", "e", "a", "d", " ", "P", "i", "l", "e">>,
      St_foobar, <<>>, <<" ">> }

CvBooks ==
    { [BaseBook EXCEPT !.status = s] : s \in CvStatusCells }
    \cup { [BaseBook EXCEPT !.status = s, !.last_read = d] :
             s \in {S_read, St_DNF}, d \in {D_slash, D_bad, <<>>} }
    \cup { [BaseBook EXCEPT !.last_read = d] : d \in {D_dmy, D_verbose, D_feb30} }
    \cup { [BaseBook EXCEPT !.status = s, !.tags = <<>>] : s \in {S_read, St_DNF} }
    \cup { [BaseBook EXCEPT !.isbn = i] :
             i \in { <<"0", "3", "0", "6", "4", "0", "6", "1", "5", "2">>,
                     <<"9", "7", "8", "-", "0", "3", "0", "6", "4", "0", "6",
                       "1", "5", "-", "7", "X">>,
                     <<"1", "2">> } }
    \cup { [BaseBook EXCEPT !.count = c] :
             c \in { <<"1", ".", "9">>, <<"-", "3">>, <<"x">>, <<>>, <<" ">> } }
    \cup { [BaseBook EXCEPT !.added = d] : d \in {D_iso, D_bad} }
    \cup { [BaseBook EXCEPT !.rating = r] :
             r \in { <<"5", " ", "s", "t", "a", "r", "s">>, <<>> } }
    \cup { [BaseBook EXCEPT !.owned = <<"n", "o">>] }

CvCell(name, book) ==
    CASE name = "Title" -> book.title
      [] name = "Authors" -> book.authors
      [] name = "ISBN/UID" -> book.isbn
      [] name = "Read Status" -> book.status
      [] name = "Date Added" -> book.added
      [] name = "Last Date Read" -> book.last_read
      [] name = "Read Count" -> book.count
      [] name = "Star Rating" -> book.rating
      [] name = "Tags" -> book.tags
      [] name = "Owned?" -> book.owned
      [] OTHER -> <<"x">>

\* The headers tried: the export's columns that convert_csv reads; the
\* same up to Read Count; and a file of titles and authors.
CvHeaders ==
    { <<"Title", "Authors", "ISBN/UID", "Read Status", "Date Added",
        "Last Date Read", "Read Count", "Star Rating", "Tags", "Owned?">>,
      <<"Title", "Authors", "ISBN/UID", "Read Status", "Date Added",
        "Last Date Read", "Read Count">>,
      <<"Title", "Authors">> }

\* The records of a file: every book in full, the base book cut short by
\* one cell, to three cells and to one, and with a cell too many.
CvRecords(fieldnames) ==
    LET full(book) == [i \in 1..Len(fieldnames) |-> CvCell(fieldnames[i], book)]
        base == full(BaseBook)
    IN  { full(book) : book \in CvBooks }
          \cup { SubSeq(base, 1, Len(fieldnames) - 1),
                 SubSeq(base, 1, Min(3, Len(fieldnames))),
                 SubSeq(base, 1, 1), Append(base, <<"x">>) }

ConvInit ==
    /\ cv_pc = "rows"
    /\ \E hdr \in CvHeaders :
         \E n \in 0..MaxConvRows :
           cv_file \in { [header |-> hdr, rows |-> rs] :
                            rs \in [1..n -> CvRecords(hdr)] }
    /\ cv_reader = 0
    /\ cv_out = <<>>

ConvIdle ==
    /\ cv_pc = "idle"
    /\ cv_file = [header |-> <<>>, rows |-> <<>>]
    /\ cv_reader = 0
    /\ cv_out = <<>>

\* Lines 152-217, one pass of the loop: the next row is converted and
\* written, unless the conversion raises, which ends the run.
ConvertRow ==
    /\ cv_pc = "rows"
    /\ cv_reader < Len(cv_file.rows)
    /\ LET row == DictReaderRow(cv_file.header, cv_file.rows[cv_reader + 1])
       IN  IF ConvertRaises(cv_file.header, row)
           THEN /\ cv_pc' = "raised"
                /\ UNCHANGED cv_out
           ELSE /\ cv_out' = Append(cv_out,
                                    WrittenRow(goodreads_row(cv_file.header, row)))
                /\ UNCHANGED cv_pc
    /\ cv_reader' = cv_reader + 1
    /\ UNCHANGED cv_file
    /\ UNCHANGED cv_others

\* Line 219: the input is exhausted and the output closed.
ConvertDone ==
    /\ cv_pc = "rows"
    /\ cv_reader = Len(cv_file.rows)
    /\ cv_pc' = "done"
    /\ UNCHANGED <<cv_file, cv_reader, cv_out>>
    /\ UNCHANGED cv_others

ConvNext ==
    \/ ConvertRow
    \/ ConvertDone

-----------------------------------------------------------------------------
(* Specifications: one for each utility, and Spec for a run of any one.    *)

vars == <<sp_vars, st_vars, cmp_vars, cv_vars>>

InitSplit == SplitInit /\ StatusIdle /\ CmpIdle /\ ConvIdle
SpecSplit == InitSplit /\ [][SplitNext]_vars

InitStatus == StatusInit /\ SplitIdle /\ CmpIdle /\ ConvIdle
SpecStatus == InitStatus /\ [][StatusNext]_vars

InitCmp == CmpInit /\ SplitIdle /\ StatusIdle /\ ConvIdle
SpecCmp == InitCmp /\ [][CmpNext]_vars

InitConv == ConvInit /\ SplitIdle /\ StatusIdle /\ CmpIdle
SpecConv == InitConv /\ [][ConvNext]_vars

Init == InitSplit \/ InitStatus \/ InitCmp \/ InitConv
Next == SplitNext \/ StatusNext \/ CmpNext \/ ConvNext
Spec == Init /\ [][Next]_vars

-----------------------------------------------------------------------------
(* Properties of split_csv.                                                *)

\* C4: after a run of split_csv with chunk size N >= 1, every chunk file
\* holds at most N data rows and the rows of chunks 1, 2, ... laid end to
\* end are the input's data rows, none lost, repeated or moved.
C4_ChunksPartitionInput ==
    /\ \A k \in 1..Len(sp_out) : Len(sp_out[k].rows) <= chunk_size
    /\ sp_pc = "done" =>
         Flatten([k \in 1..Len(sp_out) |-> sp_out[k].rows]) = SplitDataRows

\* A finished run that wrote two chunks or more, the last one partly full.
C4_Witness ==
    /\ sp_pc = "done"
    /\ Len(sp_out) >= 2
    /\ Len(sp_out[Len(sp_out)].rows) \in 1..(chunk_size - 1)
    /\ Len(sp_out[1].rows) = chunk_size

\* C5: for R data records and chunk size N, split_csv writes ceil(R/N)
\* chunk files, each but the last of N rows, the last one of the remainder
\* when N does not divide R; no chunk file holds a header alone.
C5_ChunkCountIsCeilOfRecords ==
    sp_pc = "done" =>
      LET R == Len(SplitDataRows)
          n == Len(sp_out)
      IN  /\ n = Ceil(R, chunk_size)
          /\ \A k \in 1..n : k < n => Len(sp_out[k].rows) = chunk_size
          /\ \A k \in 1..n : sp_out[k].rows # <<>>
          /\ (R % chunk_size # 0) =>
               Cardinality({k \in 1..n : Len(sp_out[k].rows) = R % chunk_size}) = 1

-----------------------------------------------------------------------------
(* Properties of split_by_status.                                          *)

\* The status of input row i as line 108 reads it.
StatusAt(i) ==
    StatusOf(st_file.header, DictReaderRow(st_file.header, st_file.rows[i]))

\* The numbers of the input rows a file holds, in the file's order, the
\* header line left out.
RowsIn(content) ==
    LET body == SelectSeq(content, LAMBDA e : e.n # 0)
    IN  [j \in 1..Len(body) |-> body[j].n]

\* The numbers of the input rows of status s, in input order.
RowsOfStatus(s) ==
    SelectSeq([i \in 1..Len(st_file.rows) |-> i], LAMBDA i : StatusAt(i) = s)

\* C6: after a complete run of split_by_status every input row is in one
\* output file only, the one named after its status; each status file
\* holds the rows of that status in input order; and there is a file for
\* each status that occurs and for no other.
C6_StatusFilesPartitionInput ==
    st_pc = "done" =>
      LET N == Len(st_file.rows)
      IN  /\ \A i \in 1..N :
                {p \in DOMAIN st_fs : \E j \in 1..Len(st_fs[p]) : st_fs[p][j].n = i}
                  = {StatusFileName(StatusAt(i))}
          /\ \A i \in 1..N :
                RowsIn(st_fs[StatusFileName(StatusAt(i))]) = RowsOfStatus(StatusAt(i))
          /\ DOMAIN st_fs = {StatusFileName(StatusAt(i)) : i \in 1..N}

\* Whether input row i has no status: no status column, no cell for it, or
\* an empty cell.
StatusMissing(i) ==
    \/ ColIndex(st_file.header, ExclusiveShelf) = 0
    \/ StatusAt(i) = None
    \/ StatusAt(i) = <<>>

\* C7: a row without a status (the column absent, the row too short, the
\* cell empty) is written to the file of the name unknown.
C7_MissingStatusGoesToUnknown ==
    st_pc = "done" =>
      \A i \in 1..Len(st_file.rows) :
         StatusMissing(i) =>
            /\ S_unknown \in DOMAIN st_fs
            /\ \E j \in 1..Len(st_fs[S_unknown]) : st_fs[S_unknown][j].n = i

-----------------------------------------------------------------------------
(* Properties of compare_storygraph_libraries.                             *)

\* The candidate keys of row i of the new catalog: its normalized ISBN if
\* not empty, title|author if the author is not empty, and its title.
CandidateKeys(i) ==
    LET headers == new_file.header
        row == DictReaderRow(headers, new_file.rows[i])
        title == NewTitle(headers, row)
        author == NewAuthor(headers, row)
        isbn == NewIsbn(headers, row)
    IN  (IF isbn # <<>> THEN {isbn} ELSE {})
          \cup (IF author # <<>> THEN {TitleAuthorKey(title, author)} ELSE {})
          \cup {title}

\* The keys of all rows of the existing catalog.
ExistingKeySet ==
    UNION { ExistingKeys(existing_file.header,
                         DictReaderRow(existing_file.header, existing_file.rows[k])) :
              k \in 1..Len(existing_file.rows) }

\* The numbers of the rows written, in the order of the output.
WrittenRows == [j \in 1..Len(cmp_output.rows) |-> cmp_output.rows[j].n]

\* C2: a row of the new catalog is written if and only if none of its
\* candidate keys is in the key set of the existing catalog; the rows
\* written keep their order and their cells, under the new file's header.
C2_OutputIsUnmatchedRows ==
    cmp_pc = "done" =>
      /\ cmp_output.header = new_file.header
      /\ WrittenRows =
           SelectSeq([i \in 1..Len(new_file.rows) |-> i],
                     LAMBDA i : CandidateKeys(i) \cap ExistingKeySet = {})
      /\ \A j \in 1..Len(cmp_output.rows) :
            cmp_output.rows[j].cells = new_file.rows[cmp_output.rows[j].n]

\* A finished comparison of two rows, one written and one matched.
C2_Witness ==
    /\ cmp_pc = "done"
    /\ Len(new_file.rows) = 2
    /\ Len(cmp_output.rows) = 1
    /\ existing_books # {}

\* Whether row i of the new catalog and row k of the existing one have the
\* same normalized title, the same normalized author or the same
\* normalized ISBN.
SharesField(i, k) ==
    LET nh == new_file.header
        nr == DictReaderRow(nh, new_file.rows[i])
        eh == existing_file.header
        er == DictReaderRow(eh, existing_file.rows[k])
    IN  \/ NewTitle(nh, nr) = ExistingTitle(eh, er)
        \/ NewAuthor(nh, nr) = ExistingAuthor(eh, er)
        \/ NewIsbn(nh, nr) = ExistingIsbn(eh, er)

\* C3: when no row of the new catalog shares a normalized ISBN, title or
\* author, field by field, with a row of the existing catalog, the output
\* is the whole new catalog, unchanged and in order.
C3_NoOverlapKeepsEveryRow ==
    (/\ cmp_pc = "done"
     /\ \A i \in 1..Len(new_file.rows), k \in 1..Len(existing_file.rows) :
           ~SharesField(i, k))
      => /\ WrittenRows = [i \in 1..Len(new_file.rows) |-> i]
         /\ \A j \in 1..Len(cmp_output.rows) :
               cmp_output.rows[j].cells = new_file.rows[cmp_output.rows[j].n]

-----------------------------------------------------------------------------
(* Properties of convert_csv.                                              *)

\* Cell `name` of source row i as convert_csv reads it, `default` when the
\* header lacks the column.
SourceCell(i, name, default) ==
    RowGet(cv_file.header, DictReaderRow(cv_file.header, cv_file.rows[i]),
           name, default)

\* C1: in every output row Date Read is not empty only if Exclusive Shelf
\* is read, and under the shelf read it is empty or the converted date of
\* the row's Last Date Read.
C1_DateReadOnlyOnReadShelf ==
    \A i \in 1..Len(cv_out) :
       /\ cv_out[i]["Date Read"] # <<>> => cv_out[i]["Exclusive Shelf"] = S_read
       /\ cv_out[i]["Exclusive Shelf"] = S_read =>
            cv_out[i]["Date Read"]
              \in { <<>>, convert_date_format(SourceCell(i, "Last Date Read", <<>>)) }

\* Two rows written: one read with its date, one not read whose Last Date
\* Read converts and whose Date Read is empty.
C1_Witness ==
    \E i, j \in 1..Len(cv_out) :
       /\ cv_out[i]["Exclusive Shelf"] = S_read
       /\ cv_out[i]["Date Read"] # <<>>
       /\ cv_out[j]["Exclusive Shelf"] # S_read
       /\ convert_date_format(SourceCell(j, "Last Date Read", <<>>)) # <<>>
       /\ cv_out[j]["Date Read"] = <<>>

\* C8: in every output row Bookshelves is the Exclusive Shelf and
\* Bookshelves with positions is that status followed by (#1), whatever
\* other columns, Tags among them, the source has.
C8_BookshelvesIsShelf ==
    \A i \in 1..Len(cv_out) :
       /\ cv_out[i]["Bookshelves"] = cv_out[i]["Exclusive Shelf"]
       /\ cv_out[i]["Bookshelves with positions"] =
            cv_out[i]["Exclusive Shelf"] \o <<" ", "(", "#", "1", ")">>

\* C9: no cell of a source row, malformed, empty or absent because the row
\* is shorter than the header, aborts the run: the run ends with one
\* output row for each source row.
C9_NoRowAbortsTheRun ==
    /\ cv_pc # "raised"
    /\ cv_pc = "done" => Len(cv_out) = Len(cv_file.rows)

\* C10: the Exclusive Shelf of every output row is one of read,
\* currently-reading, to-read and abandoned: the table's entry for the
\* Read Status cell in lower case without the spaces around it, and
\* to-read for any other cell, an empty one, or no Read Status column.
C10_StatusMapping ==
    \A i \in 1..Len(cv_out) :
       LET key == Lower(Strip(SourceCell(i, "Read Status", <<>>)))
           shelf == cv_out[i]["Exclusive Shelf"]
           reading == { S_currently_reading,
                        <<"c", "u", "r", "r", "e", "n", "t", "l", "y", " ",
                          "r", "e", "a", "d", "i", "n", "g">> }
           pile == { S_to_read, <<"t", "o", " ", "r", "e", "a", "d">>,
                     <<"t", "o", "-", "r", "e", "a", "d", " ", "p", "i", "l", "e">> }
       IN  /\ shelf \in {S_read, S_currently_reading, S_to_read, S_abandoned}
           /\ key = S_read => shelf = S_read
           /\ key \in reading => shelf = S_currently_reading
           /\ key \in pile => shelf = S_to_read
           /\ key = <<"d", "n", "f">> => shelf = S_abandoned
           /\ key \notin ({S_read, <<"d", "n", "f">>} \cup reading \cup pile) =>
                shelf = S_to_read

\* Two rows written: DNF in capitals mapped to abandoned, and a status the
\* table lacks mapped to to-read.
C10_Witness ==
    \E i, j \in 1..Len(cv_out) :
       /\ SourceCell(i, "Read Status", <<>>) = St_DNF
       /\ cv_out[i]["Exclusive Shelf"] = S_abandoned
       /\ SourceCell(j, "Read Status", <<>>) = St_foobar
       /\ cv_out[j]["Exclusive Shelf"] = S_to_read

\* C11: the Read Count of every output row is the decimal text of
\* max(0, trunc(x)) when the source cell is a number x, and 0 when the cell
\* is no number, is empty or blank, or there is no such cell or column; it
\* is never empty and never negative.
C11_ReadCountIsNumber ==
    \A i \in 1..Len(cv_out) :
       LET cell == SourceCell(i, "Read Count", None)
           out == cv_out[i]["Read Count"]
       IN  /\ out # <<>>
           /\ AllDigits(out)
           /\ out = IF cell # None /\ IntOfFloat(cell).ok
                    THEN IntToStr(Max(0, IntOfFloat(cell).val))
                    ELSE S_zero

\* C12: with d the digits of the ISBN/UID cell, an output row has ISBN
\* =""d"" and ISBN13 =""="" when d has 10 digits, ISBN13 =""d"" and ISBN
\* =""="" when d has 13, and both fields at the default ="""" for any other
\* number of digits, none included; never do both fields hold digits.
C12_IsbnRouting ==
    \A i \in 1..Len(cv_out) :
       LET cell == SourceCell(i, "ISBN/UID", <<>>)
           d == SelectSeq(cell, LAMBDA c : c \in {"0", "1", "2", "3", "4", "5",
                                                  "6", "7", "8", "9"})
           escaped == <<"=", "\"", "\"">> \o d \o <<"\"", "\"">>
           blank == <<"=", "\"", "\"", "=", "\"", "\"">>
           default == <<"=", "\"", "\"", "\"", "\"">>
           isbn == cv_out[i]["ISBN"]
           isbn13 == cv_out[i]["ISBN13"]
       IN  /\ Len(d) = 10 => isbn = escaped /\ isbn13 = blank
           /\ Len(d) = 13 => isbn13 = escaped /\ isbn = blank
           /\ Len(d) \notin {10, 13} => isbn = default /\ isbn13 = default
           /\ ~(DigitsOf(isbn) # <<>> /\ DigitsOf(isbn13) # <<>>)

\* Two rows written: one of a 10-digit cell, routed to ISBN, and one of a
\* cell of 13 digits among hyphens and a letter, routed to ISBN13.
C12_Witness ==
    \E i, j \in 1..Len(cv_out) :
       /\ Len(DigitsOf(SourceCell(i, "ISBN/UID", <<>>))) = 10
       /\ DigitsOf(cv_out[i]["ISBN"]) # <<>>
       /\ Len(DigitsOf(SourceCell(j, "ISBN/UID", <<>>))) = 13
       /\ Len(SourceCell(j, "ISBN/UID", <<>>)) > 13
       /\ DigitsOf(cv_out[j]["ISBN13"]) # <<>>

\* C13: the Date Added of every output row is the converted date of the
\* source Date Added when that is not empty, and 2025/01/01 when it is
\* empty: the cell empty or no date, or the source without the column; it
\* is never empty.
C13_DateAddedNeverEmpty ==
    \A i \in 1..Len(cv_out) :
       LET date_added == convert_date_format(SourceCell(i, "Date Added", <<>>))
           out == cv_out[i]["Date Added"]
       IN  /\ out # <<>>
           /\ out = IF date_added # <<>> THEN date_added
                    ELSE <<"2", "0", "2", "5", "/", "0", "1", "/", "0", "1">>

=============================================================================
